---------------------------- MODULE Spec2Model ----------------------------
(***************************************************************************)
(* A model of the two-stage RAUX installer.                                *)
(*                                                                         *)
(*   Bootstrap stage    : installer/raux_installer.py  (install_raux)      *)
(*   Provisioning stage : installer/ux_installer/install.py  (main)        *)
(*                                                                         *)
(* Text (file names, version strings, URLs) is modelled as sequences of    *)
(* one-character strings, so that startswith / endswith / "in" / lower()   *)
(* are computed rather than assumed.  A URL is a sequence of pieces: the   *)
(* literal parts of a template are single pieces, interpolated text is     *)
(* spliced in character by character.                                      *)
(***************************************************************************)
EXTENDS Integers, Sequences, FiniteSets, TLC

VARIABLES
    \* ---- URL-resolution harness (SpecUrl) ----
    urlVersion,      \* input of get_specific_version_url ([some, val])
    urlResponse,     \* answer of the latest-release endpoint given to get_latest_release_url
    urlResult,       \* what the URL function gave back ([called, raised, url])
    urlPc,           \* position of the URL-resolution harness
    \* ---- the file system, which outlives a run ----
    installDir,      \* the directory named by --install-dir: "absent", "readonly" or "ok"
    runtimePresent,  \* <install dir>/python/python.exe exists
    logExists,       \* the log file exists
    logContent,      \* its content, a sequence of entries
    localFile,       \* the file --local-release names ([exists, archive])
    rauxZip,         \* raux.zip in the working directory ([exists, archive])
    extracted,       \* the files under extracted_files ([dir, name, origin])
    installed,       \* the files the installer places under the install directory
    cwd_launchers,   \* the launcher files os.path.exists finds in the working directory
    runs,            \* how many runs have been started in this working directory
    unpacked,        \* the archives extractall has unpacked into extracted_files so far
    \* ---- one run ----
    pc,              \* position of the running stage
    args,            \* the arguments of install_raux
    handlerOpen,     \* the Bootstrap process holds an open handle on the log file
    download_url,    \* install_raux: download_url
    env_example_path,\* install_raux: env_example_path
    install_script,  \* install_raux: install_script
    cmd,             \* install_raux: cmd, as handed to subprocess.run
    exit_code,       \* install_raux: exit_code
    launcher_found,  \* install_raux: launcher_ps1_found, launcher_cmd_found
    result,          \* how install_raux ended ([kind, code])
    caller,          \* who started the Provisioning stage: "bootstrap" or "standalone"
    provResult,      \* how main() of install.py ended ([kind, code])
    trace            \* the operations of this run and their failures, in order

urlVars == <<urlVersion, urlResponse, urlResult, urlPc>>
fsVars == <<installDir, runtimePresent, logExists, logContent, localFile, rauxZip, extracted,
           installed, cwd_launchers, runs, unpacked>>
runVars == <<pc, args, handlerOpen, download_url, env_example_path, install_script, cmd,
             exit_code, launcher_found, result, caller, provResult, trace>>
vars == <<urlVars, fsVars, runVars>>

---------------------------------------------------------------------------
(* Bounds of the model *)

MaxLen == 3          \* longest generated version string
MaxAssets == 3       \* longest generated asset list of a release
MaxRuns == 3         \* most runs started one after another in a working directory

---------------------------------------------------------------------------
(* Text helpers: Python's str operations on sequences of characters *)

\* str.startswith
StartsWith(s, p) ==
    /\ Len(p) <= Len(s)
    /\ SubSeq(s, 1, Len(p)) = p

\* str.endswith
EndsWith(s, p) ==
    /\ Len(p) <= Len(s)
    /\ SubSeq(s, Len(s) - Len(p) + 1, Len(s)) = p

\* the "in" operator on two str
Contains(s, p) ==
    \E i \in 1..(Len(s) - Len(p) + 1) : SubSeq(s, i, i + Len(p) - 1) = p

LowerChar(c) ==
    CASE c = "W" -> "w"
      [] c = "I" -> "i"
      [] c = "N" -> "n"
      [] c = "Z" -> "z"
      [] c = "P" -> "p"
      [] OTHER   -> c

\* str.lower
Lower(s) == [i \in 1..Len(s) |-> LowerChar(s[i])]

\* all sequences over S of length at most n
RECURSIVE SeqsUpTo(_, _)
SeqsUpTo(S, n) ==
    IF n = 0 THEN {<<>>}
    ELSE LET shorter == SeqsUpTo(S, n - 1)
         IN  shorter \cup {Append(s, x) : s \in {t \in shorter : Len(t) = n - 1}, x \in S}

---------------------------------------------------------------------------
(* get_specific_version_url *)

VersionUrlPrefix == "https://github.com/aigdat/raux/releases/download/"

\* version[1:] if version.startswith('v') else version
FilenameVersionAllStripped(version) ==
    LET RECURSIVE Strip(_)
        Strip(s) == IF StartsWith(s, <<"v">>) THEN Strip(Tail(s)) ELSE s
    IN  Strip(version)

FilenameVersion(version) ==
    IF StartsWith(version, <<"v">>) THEN SubSeq(version, 2, Len(version)) ELSE version

get_specific_version_url(version) ==
    <<VersionUrlPrefix>> \o version \o <<"/raux-">> \o FilenameVersion(version)
        \o <<"-setup.zip">>

---------------------------------------------------------------------------
(* get_latest_release_url *)

\* The assets a release can list.  An asset is identified by its index here;
\* its "name" and "browser_download_url" fields are given by the two tables.
AssetNames == <<
    <<"w","i","n",".","z","i","p">>,          \* Windows-tagged archive
    <<"W","I","N","-","a",".","z","i","p">>,  \* Windows-tagged only after lower()
    <<"a",".","z","i","p">>,                  \* an archive without the tag
    <<"b",".","z","i","p">>,                  \* another one
    <<"w","i","n",".","w","h","l">>,          \* tagged, but no archive
    <<"w","i","n",".","Z","I","P">> >>        \* tagged, upper-case extension

AssetIds == 1..Len(AssetNames)

AssetName(a) == AssetNames[a]

AssetUrl(a) ==
    <<CASE a = 1 -> "asset-url-1" [] a = 2 -> "asset-url-2" [] a = 3 -> "asset-url-3"
        [] a = 4 -> "asset-url-4" [] a = 5 -> "asset-url-5" [] OTHER -> "asset-url-6">>

ZipballUrl == <<"zipball_url of the release">>

DefaultUrl == <<"https://github.com/aigdat/raux/archive/refs/heads/main.zip">>

DotZip == <<".", "z", "i", "p">>

\* asset["name"].endswith(".zip") and ("win" in name.lower() or "windows" in name.lower())
IsWindowsZip(a) ==
    /\ EndsWith(AssetName(a), DotZip)
    /\ \/ Contains(Lower(AssetName(a)), <<"w","i","n">>)
       \/ Contains(Lower(AssetName(a)), <<"w","i","n","d","o","w","s">>)

\* asset["name"].endswith(".zip")
IsZip(a) == EndsWith(AssetName(a), DotZip)

\* The answers of the metadata endpoint: the request raises, or it answers
\* with a status and (for 200) a JSON body with an asset list and, possibly,
\* a zipball_url.
Responses ==
    {[kind |-> "exception", status |-> 0, assets |-> <<>>, zipball |-> FALSE]}
    \cup {[kind |-> "response", status |-> 404, assets |-> <<>>, zipball |-> FALSE]}
    \cup [kind : {"response"}, status : {200},
          assets : SeqsUpTo(AssetIds, MaxAssets), zipball : BOOLEAN]

Returned(url) == [called |-> TRUE, raised |-> FALSE, url |-> url]
Raised == [called |-> TRUE, raised |-> TRUE, url |-> <<>>]
NotCalled == [called |-> FALSE, raised |-> FALSE, url |-> <<>>]

\* the first loop: for asset in assets: if <windows zip>: return url
RECURSIVE FirstWindowsZip(_, _)
FirstWindowsZip(assets, i) ==
    IF i > Len(assets) THEN 0
    ELSE IF IsWindowsZip(assets[i]) THEN i
    ELSE FirstWindowsZip(assets, i + 1)

\* the second loop: for asset in assets: if <zip>: return url
RECURSIVE FirstZip(_, _)
FirstZip(assets, i) ==
    IF i > Len(assets) THEN 0
    ELSE IF IsZip(assets[i]) THEN i
    ELSE FirstZip(assets, i + 1)

\* an answer with another status than 200 treated as a failed request
get_latest_release_url_status_checked(resp) ==
    IF resp.kind = "exception" \/ resp.status # 200 THEN Raised
    ELSE IF FirstWindowsZip(resp.assets, 1) # 0
         THEN Returned(AssetUrl(resp.assets[FirstWindowsZip(resp.assets, 1)]))
    ELSE IF FirstZip(resp.assets, 1) # 0
         THEN Returned(AssetUrl(resp.assets[FirstZip(resp.assets, 1)]))
    ELSE IF resp.zipball THEN Returned(ZipballUrl)
    ELSE Returned(DefaultUrl)

get_latest_release_url_any_zip_first(resp) ==
    IF resp.kind = "exception" THEN Raised
    ELSE IF resp.status = 200 /\ FirstZip(resp.assets, 1) # 0
         THEN Returned(AssetUrl(resp.assets[FirstZip(resp.assets, 1)]))
    ELSE IF resp.status = 200 /\ resp.zipball THEN Returned(ZipballUrl)
    ELSE Returned(DefaultUrl)

get_latest_release_url(resp) ==
    IF resp.kind = "exception" THEN Raised
    ELSE IF resp.status = 200 /\ FirstWindowsZip(resp.assets, 1) # 0
         THEN Returned(AssetUrl(resp.assets[FirstWindowsZip(resp.assets, 1)]))
    ELSE IF resp.status = 200 /\ FirstZip(resp.assets, 1) # 0
         THEN Returned(AssetUrl(resp.assets[FirstZip(resp.assets, 1)]))
    ELSE IF resp.status = 200 /\ resp.zipball THEN Returned(ZipballUrl)
    ELSE Returned(DefaultUrl)

---------------------------------------------------------------------------
(* The URL functions applied to every input of the bounded sets *)

VersionChars == {"v", "1", "."}

\* the version string of the documentation's example: v1.2.3+extra
ExampleVersion == <<"v","1",".","2",".","3","+","e","x","t","r","a">>

Versions == SeqsUpTo(VersionChars, MaxLen) \cup {ExampleVersion}

NoVersion == [some |-> FALSE, val |-> <<>>]
NoResponse == [kind |-> "none", status |-> 0, assets |-> <<>>, zipball |-> FALSE]

UrlInit ==
    /\ urlPc = "start"
    /\ urlResult = NotCalled
    /\ \/ /\ urlVersion \in [some : {TRUE}, val : Versions]
          /\ urlResponse = NoResponse
       \/ /\ urlVersion = NoVersion
          /\ urlResponse \in Responses

\* download_url = get_specific_version_url(version)
ResolveSpecific ==
    /\ urlPc = "start"
    /\ urlVersion.some
    /\ urlResult' = Returned(get_specific_version_url(urlVersion.val))
    /\ urlPc' = "resolved"
    /\ UNCHANGED <<urlVersion, urlResponse, fsVars, runVars>>

\* download_url = get_latest_release_url()
ResolveLatest ==
    /\ urlPc = "start"
    /\ ~urlVersion.some
    /\ urlResult' = get_latest_release_url(urlResponse)
    /\ urlPc' = "resolved"
    /\ UNCHANGED <<urlVersion, urlResponse, fsVars, runVars>>

UrlNext == ResolveSpecific \/ ResolveLatest

---------------------------------------------------------------------------
(* The file system the Bootstrap stage works on *)

\* The directories of an extracted archive, in the order os.walk visits them
\* (top-down: a directory before its subdirectories).
DirPaths == << <<"pkg">>, <<"pkg", "ux_installer">>, <<"z">> >>

DirIds == 1..Len(DirPaths)

\* "ux_installer" in root, for the directories above (no directory name of
\* the model contains ux_installer as a proper part)
InUxInstaller(d) == \E i \in 1..Len(DirPaths[d]) : DirPaths[d][i] = "ux_installer"

FileNames == {"install.py", ".env.example", "launch_raux.ps1", "launch_raux.cmd"}

\* The files of an archive whose install.py lie in the directories `script`
\* and whose other files lie in one directory each (0: not in the archive).
ArchiveFiles(script, env, ps1, lcmd) ==
    {[dir |-> d, name |-> "install.py"] : d \in script}
    \cup {[dir |-> d, name |-> ".env.example"] : d \in {env} \cap DirIds}
    \cup {[dir |-> d, name |-> "launch_raux.ps1"] : d \in {ps1} \cap DirIds}
    \cup {[dir |-> d, name |-> "launch_raux.cmd"] : d \in {lcmd} \cap DirIds}

\* A zip file: readable or not, and the files it holds.  `origin` tells the
\* bytes of the local file from the bytes a download delivers.
Archive(origin, files) == [origin |-> origin, readable |-> TRUE, files |-> files]
CorruptArchive(origin) == [origin |-> origin, readable |-> FALSE, files |-> {}]

AllFileSets ==
    {ArchiveFiles(s, e, p, c) :
        s \in SUBSET DirIds, e \in 0..Len(DirPaths), p \in 0..Len(DirPaths),
        c \in 0..Len(DirPaths)}

\* what a --local-release file can hold: every placement of the four files
AllLocalArchives ==
    {Archive("local", f) : f \in AllFileSets} \cup {CorruptArchive("local")}

\* the local release files a whole run is tried with
SampleLocalArchives ==
    {Archive("local", ArchiveFiles({2}, 1, 3, 1)),
     Archive("local", ArchiveFiles({1, 3}, 0, 2, 0)),
     Archive("local", ArchiveFiles({}, 2, 2, 2)),
     CorruptArchive("local")}

\* what a download can deliver
RemoteArchives ==
    {Archive("remote", ArchiveFiles({2}, 2, 1, 1)),
     Archive("remote", ArchiveFiles({1}, 0, 0, 3)),
     Archive("remote", {}),
     CorruptArchive("remote")}

NoZip == [exists |-> FALSE, archive |-> CorruptArchive("none")]

NoFile == [dir |-> 0, name |-> "", origin |-> ""]
NoPath == [found |-> FALSE, dir |-> 0]

Targets == {".env", "launch_raux.ps1", "launch_raux.cmd"}

\* an extraction into a directory that is emptied first
ExtractAllIntoEmptied(tree, archive) ==
    {[dir |-> m.dir, name |-> m.name, origin |-> archive.origin] : m \in archive.files}

\* zip_ref.extractall(extract_dir): every member is written, replacing a file
\* of the same path; nothing else under extract_dir is touched
ExtractAll(tree, archive) ==
    {f \in tree : [dir |-> f.dir, name |-> f.name] \notin archive.files}
    \cup {[dir |-> m.dir, name |-> m.name, origin |-> archive.origin] : m \in archive.files}

HasFile(tree, d, name) == \E f \in tree : f.dir = d /\ f.name = name

FileAt(tree, d, name) == CHOOSE f \in tree : f.dir = d /\ f.name = name

\* for root, dirs, files in os.walk(extract_dir): if name in files: ...; break
RECURSIVE WalkFind(_, _, _)
WalkFind(tree, name, d) ==
    IF d > Len(DirPaths) THEN NoPath
    ELSE IF HasFile(tree, d, name) THEN [found |-> TRUE, dir |-> d]
    ELSE WalkFind(tree, name, d + 1)

\* the search given up after the first directory of the walk
FindFileFirstDirOnly(tree, name) ==
    IF HasFile(tree, 1, name) THEN [found |-> TRUE, dir |-> 1] ELSE NoPath

\* the first file of that name the walk of the extracted tree meets
FindFile(tree, name) == WalkFind(tree, name, 1)

\* for root, dirs, files in os.walk(extract_dir):
\*     if "install.py" in files and "ux_installer" in root: ...; break
RECURSIVE WalkFindUx(_, _)
WalkFindUx(tree, d) ==
    IF d > Len(DirPaths) THEN NoPath
    ELSE IF HasFile(tree, d, "install.py") /\ InUxInstaller(d) THEN [found |-> TRUE, dir |-> d]
    ELSE WalkFindUx(tree, d + 1)

\* the search that takes the first install.py of the walk, wherever it lies
FindInstallScriptPathFirstMet(tree) == FindFile(tree, "install.py")

\* the two searches for install.py
FindInstallScriptPath(tree) ==
    IF WalkFindUx(tree, 1).found THEN WalkFindUx(tree, 1)
    ELSE FindFile(tree, "install.py")

\* the order in which a directory lists the two launchers
LauncherNames == <<"launch_raux.cmd", "launch_raux.ps1">>

\* lines 365-397: for root, dirs, files in os.walk(extract_dir): for file in
\* files: every file named as a launcher is copied, in the order of the walk
RECURSIVE LauncherCopies(_, _)
LauncherCopies(tree, d) ==
    IF d > Len(DirPaths) THEN <<>>
    ELSE (IF HasFile(tree, d, LauncherNames[1])
          THEN <<[dir |-> d, name |-> LauncherNames[1]]>> ELSE <<>>)
         \o (IF HasFile(tree, d, LauncherNames[2])
             THEN <<[dir |-> d, name |-> LauncherNames[2]]>> ELSE <<>>)
         \o LauncherCopies(tree, d + 1)

\* shutil.copy2(<file of the tree>, <install dir>/<name>) for the first n of
\* `copies`: a later copy replaces an earlier one of the same name
RECURSIVE CopiedFromTree(_, _, _, _)
CopiedFromTree(inst, tree, copies, n) ==
    IF n = 0 THEN inst
    ELSE [CopiedFromTree(inst, tree, copies, n - 1) EXCEPT
            ![copies[n].name] = FileAt(tree, copies[n].dir, copies[n].name)]

CopyEvents(copies, n) == [i \in 1..n |-> "copy_" \o copies[i].name]

---------------------------------------------------------------------------
(* The log file *)

\* open(path, mode): "w" empties the file, "a" keeps what is there
OpenFile(content, mode) == IF mode = "w" THEN <<>> ELSE content

\* DebugFileHandler.__init__: the content of the file once the handler is open
DebugFileHandler(exists, content, mode) ==
    LET forced == IF exists /\ mode = "w" THEN "a" ELSE mode
        \* the peek: open(filename, "r" if exists and mode != "w" else "a")
        peeked == IF exists /\ forced # "w" THEN content ELSE OpenFile(content, "a")
    IN  OpenFile(peeked, forced)

\* log() of install.py replacing the file instead of appending to it
ProvLogWriteTruncating(content, message) == <<message>>

\* log() of install.py: open(LOG_FILE_PATH, "a") and write one line
ProvLogWrite(content, message) == Append(content, message)

---------------------------------------------------------------------------
(* The arguments of a run *)

SomeVersion == [some |-> TRUE, val |-> <<"v", "1">>]

AllArgs ==
    [install_dir : {"", "D"},             \* "": the parameter is missing
     debug : BOOLEAN,
     log_file : {"None", "custom"},       \* None: <install_dir>/raux_install.log
     version : {NoVersion, SomeVersion},
     local_release : {"None", "missing.zip", "local.zip"}]

NoArgs == [install_dir |-> "", debug |-> FALSE, log_file |-> "None",
           version |-> NoVersion, local_release |-> "None"]

\* the answers of the metadata endpoint a run is tried with
SampleResponses ==
    {r \in Responses : r.assets \in {<<>>, <<3, 1>>}}

NoResult == [kind |-> "none", code |-> 0]
ReturnedCode(c) == [kind |-> "returned", code |-> c]
RaisedError == [kind |-> "raised", code |-> 1]

\* sys.exit(f()): the value returned, or 1 when the exception f raised
\* reaches the top of the process
ProcessExitCode(r) == IF r.kind = "returned" THEN r.code ELSE 1

\* the return codes a subprocess can end with besides main()'s own 0 and 1
OtherExitCodes == {2}

---------------------------------------------------------------------------
(* Initial state *)

UrlIdle ==
    /\ urlVersion = NoVersion
    /\ urlResponse = NoResponse
    /\ urlResult = NotCalled
    /\ urlPc = "off"

RunIdle ==
    /\ pc = "idle"
    /\ args = NoArgs
    /\ handlerOpen = FALSE
    /\ download_url = <<>>
    /\ env_example_path = NoPath
    /\ install_script = NoPath
    /\ cmd = <<>>
    /\ exit_code = 0
    /\ launcher_found = [ps1 |-> FALSE, cmd |-> FALSE]
    /\ result = NoResult
    /\ caller = "none"
    /\ provResult = NoResult
    /\ trace = <<>>

Init ==
    /\ UrlIdle
    /\ RunIdle
    /\ installDir \in {"absent", "readonly", "ok"}
    /\ runtimePresent \in BOOLEAN
    /\ installDir = "absent" => ~runtimePresent
    /\ logExists \in BOOLEAN
    /\ logContent \in {<<>>, <<"earlier content">>}
    /\ ~logExists => logContent = <<>>
    /\ localFile = NoZip
    /\ rauxZip = NoZip
    /\ extracted = {}
    /\ installed = [t \in Targets |-> NoFile]
    /\ cwd_launchers = {}
    /\ runs = 0
    /\ unpacked = {}

---------------------------------------------------------------------------
(* Logging of the Bootstrap stage *)

\* logging.info / warning / error through the root logger: the file handler,
\* when there is one, appends the line to the log file
Logged(lines) == IF handlerOpen THEN logContent \o lines ELSE logContent

\* an exception leaves install_raux and ends the process
RaiseWith(lines) ==
    /\ logContent' = Logged(lines)
    /\ result' = RaisedError
    /\ pc' = "done"
    /\ handlerOpen' = FALSE

---------------------------------------------------------------------------
(* Bootstrap stage: install_raux *)

\* if local_release: (None and the empty string are not a path)
UsesLocalReleaseUnlessVersion(a) == a.local_release # "None" /\ ~a.version.some

UsesLocalRelease(a) == a.local_release # "None"

\* the process is started with its arguments; the file a --local-release
\* path names holds one of `archives`
BeginBootstrap(argSet, archives) ==
    /\ pc = "idle"
    /\ \E a \in argSet :
         /\ args' = a
         /\ IF a.local_release = "local.zip"
            THEN \E arch \in archives : localFile' = [exists |-> TRUE, archive |-> arch]
            ELSE localFile' = NoZip
    /\ runs' = runs + 1
    /\ pc' = "setup_logging"
    /\ UNCHANGED <<urlVars, installDir, runtimePresent, cwd_launchers, unpacked, logExists, logContent, rauxZip,
                   extracted, installed, handlerOpen, download_url, env_example_path,
                   install_script, cmd, exit_code, launcher_found, result, caller,
                   provResult, trace>>

\* the log file can be opened: it lies in the install directory unless
\* --log-file names another place (whose directory os.makedirs creates)
LogFileOpens ==
    \/ args.log_file = "custom"
    \/ args.install_dir = ""
    \/ installDir = "ok"
    \/ installDir = "readonly" /\ logExists

\* log_mode = "a" if append_mode else "w"
LogMode(append_mode) == IF append_mode THEN "a" ELSE "w"

\* lines 55-106: choose the log file and mode, logging.basicConfig, first lines
SetupLogging ==
    /\ pc = "setup_logging"
    /\ IF LogFileOpens
       THEN /\ logContent' =
                  DebugFileHandler(logExists, logContent, LogMode(logExists))
                  \o <<IF logExists THEN "RAUX INSTALLER CONTINUING" ELSE "RAUX INSTALLER",
                       "Verifying parameters">>
            /\ logExists' = TRUE
            /\ handlerOpen' = TRUE
            /\ trace' = Append(trace, "handler_open")
            /\ pc' = "verify"
            /\ UNCHANGED result
       ELSE \* open() raises inside DebugFileHandler.__init__
            /\ result' = RaisedError
            /\ pc' = "done"
            /\ UNCHANGED <<logContent, logExists, handlerOpen, trace>>
    /\ UNCHANGED <<urlVars, installDir, runtimePresent, cwd_launchers, runs, unpacked, localFile, rauxZip, extracted, installed,
                   args, download_url, env_example_path, install_script, cmd, exit_code,
                   launcher_found, caller, provResult>>

\* the checks of lines 108-132 without the test write
InstallDirProblemNoWriteTest(install_dir, dirState) ==
    IF install_dir = "" THEN "ERROR: Installation directory parameter is missing"
    ELSE IF dirState = "absent" THEN "ERROR: Installation directory does not exist"
    ELSE "none"

\* lines 108-132: the parameter is given, the directory exists, a test write
\* works; the error that is raised otherwise
InstallDirProblem(install_dir, dirState) ==
    IF install_dir = "" THEN "ERROR: Installation directory parameter is missing"
    ELSE IF dirState = "absent" THEN "ERROR: Installation directory does not exist"
    ELSE IF dirState = "readonly" THEN "ERROR: Cannot write to installation directory"
    ELSE "none"

\* lines 108-135
VerifyInstallDir ==
    /\ pc = "verify"
    /\ IF InstallDirProblem(args.install_dir, installDir) # "none"
       THEN RaiseWith(<<InstallDirProblem(args.install_dir, installDir)>>)
       ELSE /\ logContent' = Logged(<<"Starting RAUX download and installation">>)
            /\ pc' = "test_file"
            /\ UNCHANGED <<result, handlerOpen>>
    /\ UNCHANGED <<urlVars, installDir, runtimePresent, cwd_launchers, runs, unpacked, logExists, localFile, rauxZip,
                   extracted, installed, args, download_url, env_example_path,
                   install_script, cmd, exit_code, launcher_found, caller, provResult,
                   trace>>

\* lines 143-157: test_file.txt in the working directory
CreateTestFile ==
    /\ pc = "test_file"
    /\ \E ok \in BOOLEAN :
         IF ok
         THEN /\ logContent' = Logged(<<"Determining download URL">>)
              /\ pc' = "resolve"
              /\ UNCHANGED <<result, handlerOpen>>
         ELSE RaiseWith(<<"ERROR: Cannot create test file in temporary directory",
                          "Unexpected error during installation">>)
    /\ UNCHANGED <<urlVars, installDir, runtimePresent, cwd_launchers, runs, unpacked, logExists, localFile, rauxZip, extracted,
                   installed, args, download_url, env_example_path, install_script, cmd,
                   exit_code, launcher_found, caller, provResult, trace>>

\* lines 162-178: a local release is copied to raux.zip
CopyLocalRelease ==
    /\ pc = "resolve"
    /\ UsesLocalRelease(args)
    /\ IF ~localFile.exists
       THEN /\ RaiseWith(<<"ERROR: Local release file does not exist",
                           "ERROR: Failed to copy local release file",
                           "Unexpected error during installation">>)
            /\ UNCHANGED <<rauxZip, trace>>
       ELSE \E copied \in BOOLEAN :
              IF copied
              THEN /\ rauxZip' = localFile
                   /\ trace' = Append(trace, "copy_local")
                   /\ logContent' = Logged(<<"Copied local release file to raux.zip">>)
                   /\ pc' = "extract"
                   /\ UNCHANGED <<result, handlerOpen>>
              ELSE /\ RaiseWith(<<"ERROR: Failed to copy local release file",
                                  "Unexpected error during installation">>)
                   /\ trace' = Append(trace, "copy_local")
                   /\ UNCHANGED rauxZip
    /\ UNCHANGED <<urlVars, installDir, runtimePresent, cwd_launchers, runs, unpacked, logExists, localFile, extracted,
                   installed, args, download_url, env_example_path, install_script, cmd,
                   exit_code, launcher_found, caller, provResult>>

\* lines 180-182: download_url = get_specific_version_url(version)
UseSpecificVersion ==
    /\ pc = "resolve"
    /\ ~UsesLocalRelease(args)
    /\ args.version.some
    /\ download_url' = get_specific_version_url(args.version.val)
    /\ logContent' = Logged(<<"Using download URL">>)
    /\ pc' = "download"
    /\ UNCHANGED <<urlVars, installDir, runtimePresent, cwd_launchers, runs, unpacked, logExists, localFile, rauxZip, extracted,
                   installed, args, handlerOpen, env_example_path, install_script, cmd,
                   exit_code, launcher_found, result, caller, provResult, trace>>

\* lines 183-187: download_url = get_latest_release_url()
QueryLatestRelease(responses) ==
    /\ pc = "resolve"
    /\ ~UsesLocalRelease(args)
    /\ ~args.version.some
    /\ \E resp \in responses :
         LET r == get_latest_release_url(resp)
         IN  /\ urlResponse' = resp
             /\ IF r.raised
                THEN /\ trace' = trace \o <<"metadata_query", "metadata_query_failed">>
                     /\ RaiseWith(<<"Error fetching release info",
                                    "Unexpected error during installation">>)
                     /\ UNCHANGED download_url
                ELSE /\ trace' = Append(trace, "metadata_query")
                     /\ download_url' = r.url
                     /\ logContent' = Logged(<<"Using download URL">>)
                     /\ pc' = "download"
                     /\ UNCHANGED <<result, handlerOpen>>
    /\ UNCHANGED <<urlVersion, urlResult, urlPc, installDir, runtimePresent, cwd_launchers, runs, unpacked, logExists, localFile, rauxZip, extracted,
                   installed, args, env_example_path, install_script, cmd, exit_code,
                   launcher_found, caller, provResult>>

\* the download tried a second time when the first transfer fails
DownloadArchiveRetrying(archives) ==
    /\ pc = "download"
    /\ \E outcome \in {"pip_fails", "request_fails", "ok"} :
         CASE outcome = "pip_fails" ->
                /\ trace' = trace \o <<"pip_install_requests", "pip_install_requests_failed">>
                /\ RaiseWith(<<"ERROR: Failed to install requests package",
                               "ERROR: Failed to download RAUX zip file",
                               "Unexpected error during installation">>)
                /\ UNCHANGED rauxZip
           [] outcome = "request_fails" ->
                /\ trace' = trace \o <<"pip_install_requests", "download", "download_failed",
                                       "download">>
                /\ \E a \in archives : rauxZip' = [exists |-> TRUE, archive |-> a]
                /\ logContent' = Logged(<<"Installed requests package">>)
                /\ pc' = "extract"
                /\ UNCHANGED <<result, handlerOpen>>
           [] outcome = "ok" ->
                /\ trace' = trace \o <<"pip_install_requests", "download">>
                /\ \E a \in archives : rauxZip' = [exists |-> TRUE, archive |-> a]
                /\ logContent' = Logged(<<"Installed requests package">>)
                /\ pc' = "extract"
                /\ UNCHANGED <<result, handlerOpen>>
    /\ UNCHANGED <<urlVars, installDir, runtimePresent, cwd_launchers, runs, unpacked, logExists,
                   localFile, extracted, installed, args, download_url, env_example_path,
                   install_script, cmd, exit_code, launcher_found, caller, provResult>>

\* lines 189-214: pip install requests, then the archive is fetched to raux.zip
DownloadArchive(archives) ==
    /\ pc = "download"
    /\ \E outcome \in {"pip_fails", "request_fails", "stream_fails", "ok"} :
         CASE outcome = "pip_fails" ->
                /\ trace' = trace \o <<"pip_install_requests", "pip_install_requests_failed">>
                /\ RaiseWith(<<"ERROR: Failed to install requests package",
                               "ERROR: Failed to download RAUX zip file",
                               "Unexpected error during installation">>)
                /\ UNCHANGED rauxZip
           [] outcome = "request_fails" ->
                /\ trace' = trace \o <<"pip_install_requests", "download", "download_failed">>
                /\ RaiseWith(<<"Installed requests package",
                               "ERROR: Failed to download RAUX zip file",
                               "Unexpected error during installation">>)
                /\ UNCHANGED rauxZip
           [] outcome = "stream_fails" ->
                \* raux.zip is open for writing when the transfer breaks
                /\ trace' = trace \o <<"pip_install_requests", "download", "download_failed">>
                /\ RaiseWith(<<"Installed requests package",
                               "ERROR: Failed to download RAUX zip file",
                               "Unexpected error during installation">>)
                /\ rauxZip' = [exists |-> TRUE, archive |-> CorruptArchive("remote")]
           [] outcome = "ok" ->
                /\ trace' = trace \o <<"pip_install_requests", "download">>
                /\ \E a \in archives : rauxZip' = [exists |-> TRUE, archive |-> a]
                /\ logContent' = Logged(<<"Installed requests package">>)
                /\ pc' = "extract"
                /\ UNCHANGED <<result, handlerOpen>>
    /\ UNCHANGED <<urlVars, installDir, runtimePresent, cwd_launchers, runs, unpacked, logExists, localFile, extracted, installed,
                   args, download_url, env_example_path, install_script, cmd, exit_code,
                   launcher_found, caller, provResult>>

\* lines 216-233: raux.zip is unpacked into extracted_files
ExtractArchive ==
    /\ pc = "extract"
    /\ IF ~rauxZip.exists
       THEN /\ RaiseWith(<<"ERROR: Failed to download RAUX zip file",
                           "Unexpected error during installation">>)
            /\ UNCHANGED <<extracted, unpacked, trace>>
       ELSE IF ~rauxZip.archive.readable
       THEN /\ trace' = trace \o <<"extract", "extract_failed">>
            /\ RaiseWith(<<"Extracting files", "ERROR: Failed to extract RAUX zip file",
                           "Unexpected error during installation">>)
            /\ UNCHANGED <<extracted, unpacked>>
       ELSE /\ trace' = Append(trace, "extract")
            /\ extracted' = ExtractAll(extracted, rauxZip.archive)
            /\ unpacked' = unpacked \cup {rauxZip.archive}
            /\ logContent' = Logged(<<"Extracting files">>)
            /\ pc' = "env_example"
            /\ UNCHANGED <<result, handlerOpen>>
    /\ UNCHANGED <<urlVars, installDir, runtimePresent, cwd_launchers, runs, logExists, localFile, rauxZip, installed,
                   args, download_url, env_example_path, install_script, cmd, exit_code,
                   launcher_found, caller, provResult>>

\* lines 235-254: .env.example becomes <install dir>/python/Lib/.env; a copy
\* that fails is a warning only
CopyEnvExample ==
    /\ pc = "env_example"
    /\ LET found == FindFile(extracted, ".env.example")
       IN  /\ env_example_path' = found
           /\ IF found.found
              THEN \E copied \in BOOLEAN :
                     IF copied
                     THEN /\ installed' = [installed EXCEPT
                                ![".env"] = FileAt(extracted, found.dir, ".env.example")]
                          /\ logContent' = Logged(<<"Copied .env.example">>)
                     ELSE /\ logContent' = Logged(<<"WARNING: Failed to copy .env.example">>)
                          /\ UNCHANGED installed
              ELSE /\ logContent' = Logged(<<"WARNING: Could not find .env.example">>)
                   /\ UNCHANGED installed
    /\ trace' = IF env_example_path'.found THEN Append(trace, "copy_env") ELSE trace
    /\ pc' = "find_script"
    /\ UNCHANGED <<urlVars, installDir, runtimePresent, cwd_launchers, runs, unpacked, logExists, localFile, rauxZip, extracted,
                   args, handlerOpen, download_url, install_script, cmd, exit_code,
                   launcher_found, result, caller, provResult>>

\* lines 256-281: install.py is looked up, first under ux_installer
FindInstallScript ==
    /\ pc = "find_script"
    /\ LET found == FindInstallScriptPath(extracted)
       IN  IF found.found
           THEN /\ install_script' = found
                /\ logContent' = Logged(<<"Found install script">>)
                /\ pc' = "reset_log"
                /\ UNCHANGED <<result, handlerOpen>>
           ELSE /\ RaiseWith(<<"ERROR: Could not find install.py in extracted files",
                               "Unexpected error during installation">>)
                /\ UNCHANGED install_script
    /\ UNCHANGED <<urlVars, installDir, runtimePresent, cwd_launchers, runs, unpacked, logExists, localFile, rauxZip, extracted,
                   installed, args, download_url, env_example_path, cmd, exit_code,
                   launcher_found, caller, provResult, trace>>

\* lines 293-306: the log file after the check that it still exists
LogFileRecreated(exists, content) ==
    IF exists
    THEN IF Len(content) = 0
         THEN OpenFile(content, "a") \o <<"=== RAUX Installer Log ===">>
         ELSE content
    ELSE OpenFile(content, "a") \o <<"=== RAUX Installer Log (Recreated) ===">>

\* lines 283-320: the handlers are closed and logging is set up again
ResetLogHandlers ==
    /\ pc = "reset_log"
    /\ LET closing == Logged(<<"Closing log handlers">>)
           checked == LogFileRecreated(logExists, closing)
       IN  logContent' = DebugFileHandler(TRUE, checked, "a")
                           \o <<"RAUX INSTALLER CONTINUING AFTER HANDLER RESET">>
    /\ logExists' = TRUE
    /\ handlerOpen' = TRUE
    /\ trace' = trace \o <<"handler_close", "handler_open">>
    /\ pc' = "run_installer"
    /\ UNCHANGED <<urlVars, installDir, runtimePresent, cwd_launchers, runs, unpacked, localFile, rauxZip, extracted, installed,
                   args, download_url, env_example_path, install_script, cmd, exit_code,
                   launcher_found, result, caller, provResult>>

PythonPath(install_dir) == <<install_dir, "python", "python.exe">>

\* lines 322-334: cmd
BuildCmd(install_dir, script, debug) ==
    <<PythonPath(install_dir), script, "--install-dir", install_dir, "--yes", "--force">>
    \o (IF debug THEN <<"--debug">> ELSE <<>>)

\* install.py started only after the launchers of the tree were copied
RunInstallerAfterLaunchers ==
    /\ pc = "run_installer"
    /\ cmd' = BuildCmd(args.install_dir, install_script, args.debug)
    /\ LET copies == LauncherCopies(extracted, 1)
       IN  /\ installed' = CopiedFromTree(installed, extracted, copies, Len(copies))
           /\ IF runtimePresent
              THEN /\ trace' = (trace \o CopyEvents(copies, Len(copies)))
                                 \o <<"subprocess_start">>
                   /\ logContent' = Logged(<<"Running install.py">>)
                   /\ caller' = "bootstrap"
                   /\ pc' = "prov_start"
                   /\ UNCHANGED <<result, handlerOpen>>
              ELSE /\ trace' = (trace \o CopyEvents(copies, Len(copies)))
                                 \o <<"subprocess_start_failed">>
                   /\ RaiseWith(<<"Running install.py",
                                  "ERROR: Failed to run installation script",
                                  "Unexpected error during installation">>)
                   /\ UNCHANGED caller
    /\ UNCHANGED <<urlVars, installDir, runtimePresent, cwd_launchers, runs, unpacked, logExists,
                   localFile, rauxZip, extracted, args, download_url, env_example_path,
                   install_script, exit_code, launcher_found, provResult>>

\* lines 322-339, 354-356: subprocess.run(cmd) starts install.py with the
\* bundled runtime, or fails to
RunInstaller ==
    /\ pc = "run_installer"
    /\ cmd' = BuildCmd(args.install_dir, install_script, args.debug)
    /\ IF runtimePresent
       THEN /\ trace' = Append(trace, "subprocess_start")
            /\ logContent' = Logged(<<"Running install.py">>)
            /\ caller' = "bootstrap"
            /\ pc' = "prov_start"
            /\ UNCHANGED <<result, handlerOpen>>
       ELSE /\ trace' = Append(trace, "subprocess_start_failed")
            /\ RaiseWith(<<"Running install.py",
                           "ERROR: Failed to run installation script",
                           "Unexpected error during installation">>)
            /\ UNCHANGED caller
    /\ UNCHANGED <<urlVars, installDir, runtimePresent, cwd_launchers, runs, unpacked, logExists, localFile, rauxZip, extracted,
                   installed, args, download_url, env_example_path, install_script,
                   exit_code, launcher_found, provResult>>

\* process.returncode
SubprocessReturnCode(r) == IF r.kind = "raised" THEN 1 ELSE r.code

\* lines 339-353: subprocess.run returns; the output is logged
SubprocessReturned ==
    /\ pc = "subprocess_done"
    /\ exit_code' = SubprocessReturnCode(provResult)
    /\ trace' = IF exit_code' # 0 THEN Append(trace, "subprocess_exit_nonzero") ELSE trace
    /\ logContent' = Logged(<<"Installation script output", "Exit code from install.py">>)
    /\ pc' = "copy_launchers"
    /\ UNCHANGED <<urlVars, installDir, runtimePresent, cwd_launchers, runs, unpacked, logExists, localFile, rauxZip, extracted,
                   installed, args, handlerOpen, download_url, env_example_path,
                   install_script, cmd, launcher_found, result, caller, provResult>>

\* lines 399-408: a launcher the walk did not meet is a warning
NotFoundWarnings(ps1_found, cmd_found) ==
    (IF ps1_found THEN <<>>
     ELSE <<"WARNING: Could not find launch_raux.ps1 in the extracted files">>)
    \o (IF cmd_found THEN <<>>
        ELSE <<"WARNING: Could not find launch_raux.cmd in the extracted files">>)

\* lines 358-408: the launchers found in the extracted tree are copied; a
\* copy that fails ends the run (failed = 0: none fails)
CopyLaunchers ==
    /\ pc = "copy_launchers"
    /\ LET copies == LauncherCopies(extracted, 1)
           ps1_found == \E i \in 1..Len(copies) : copies[i].name = "launch_raux.ps1"
           cmd_found == \E i \in 1..Len(copies) : copies[i].name = "launch_raux.cmd"
       IN  \E failed \in 0..Len(copies) :
             IF failed = 0
             THEN /\ installed' = CopiedFromTree(installed, extracted, copies, Len(copies))
                  /\ launcher_found' = [ps1 |-> ps1_found, cmd |-> cmd_found]
                  /\ trace' = trace \o CopyEvents(copies, Len(copies))
                  /\ logContent' = Logged(<<"Copying launcher scripts">>
                                           \o NotFoundWarnings(ps1_found, cmd_found))
                  /\ pc' = "copy_launchers_cwd"
                  /\ UNCHANGED <<result, handlerOpen>>
             ELSE /\ installed' = CopiedFromTree(installed, extracted, copies, failed - 1)
                  /\ trace' = trace \o CopyEvents(copies, failed)
                  /\ RaiseWith(<<"Copying launcher scripts", "ERROR: Failed to copy launcher",
                                 "Unexpected error during installation">>)
                  /\ UNCHANGED launcher_found
    /\ UNCHANGED <<urlVars, installDir, runtimePresent, cwd_launchers, runs, unpacked, logExists,
                   localFile, rauxZip, extracted, args, download_url, env_example_path,
                   install_script, cmd, exit_code, caller, provResult>>

CwdFile(name) == [dir |-> 0, name |-> name, origin |-> "cwd"]

\* the working directory searched for launch_raux.ps1 only
CwdCopiesPs1Only(found, inCwd) ==
    IF ~found.ps1 /\ "launch_raux.ps1" \in inCwd THEN <<"launch_raux.ps1">> ELSE <<>>

\* lines 411, 428: if not launcher_..._found and os.path.exists(<name>), in
\* the order of the two statements
CwdCopies(found, inCwd) ==
    (IF ~found.ps1 /\ "launch_raux.ps1" \in inCwd THEN <<"launch_raux.ps1">> ELSE <<>>)
    \o (IF ~found.cmd /\ "launch_raux.cmd" \in inCwd THEN <<"launch_raux.cmd">> ELSE <<>>)

\* shutil.copy2(<name>, <install dir>/<name>) for the first n of `names`
CopiedFromCwd(inst, names, n) ==
    [t \in Targets |-> IF \E i \in 1..n : names[i] = t THEN CwdFile(t) ELSE inst[t]]

\* lines 410-446: a launcher not found in the tree is taken from the working
\* directory when it is there; a copy that fails ends the run
CopyLaunchersFromCwd ==
    /\ pc = "copy_launchers_cwd"
    /\ \E inCwd \in SUBSET {"launch_raux.ps1", "launch_raux.cmd"} :
         /\ cwd_launchers' = inCwd
         /\ LET names == CwdCopies(launcher_found, inCwd)
            IN  \E failed \in 0..Len(names) :
                  IF failed = 0
                  THEN /\ installed' = CopiedFromCwd(installed, names, Len(names))
                       /\ launcher_found' =
                            [ps1 |-> launcher_found.ps1 \/ "launch_raux.ps1" \in inCwd,
                             cmd |-> launcher_found.cmd \/ "launch_raux.cmd" \in inCwd]
                       /\ trace' = trace \o [i \in 1..Len(names) |-> "copy_" \o names[i]]
                       /\ logContent' = Logged(<<"Installation completed with exit code">>)
                       /\ pc' = "summary"
                       /\ UNCHANGED <<result, handlerOpen>>
                  ELSE /\ installed' = CopiedFromCwd(installed, names, failed - 1)
                       /\ launcher_found' =
                            [ps1 |-> launcher_found.ps1 \/ (failed = 2),
                             cmd |-> launcher_found.cmd]
                       /\ trace' = trace \o [i \in 1..failed |-> "copy_" \o names[i]]
                       /\ RaiseWith(<<"ERROR: Failed to copy launcher from current directory",
                                      "Unexpected error during installation">>)
    /\ UNCHANGED <<urlVars, installDir, runtimePresent, runs, unpacked, logExists, localFile,
                   rauxZip, extracted, args, download_url, env_example_path, install_script,
                   cmd, exit_code, caller, provResult>>

\* the end of install_raux returning 0 whatever the subprocess returned
SummaryResultAlwaysZero(code) == ReturnedCode(0)

\* lines 448-482: a non-zero exit code is raised as an error, zero is returned
SummaryResult(code) == IF code # 0 THEN RaisedError ELSE ReturnedCode(code)

\* lines 445-482
Summary ==
    /\ pc = "summary"
    /\ logContent' =
         Logged(IF SummaryResult(exit_code).kind = "raised"
                THEN <<"Installation failed with error code",
                       "Unexpected error during installation">>
                ELSE <<"Installation completed successfully.", "INSTALLATION SUMMARY">>)
    /\ result' = SummaryResult(exit_code)
    /\ pc' = "done"
    /\ handlerOpen' = FALSE
    /\ UNCHANGED <<urlVars, installDir, runtimePresent, cwd_launchers, runs, unpacked, logExists, localFile, rauxZip,
                   extracted, installed, args, download_url, env_example_path,
                   install_script, cmd, exit_code, launcher_found, caller, provResult,
                   trace>>

---------------------------------------------------------------------------
(* Provisioning stage: main() of install.py *)

\* LOG_FILE_PATH is <install dir>/raux_install.log: the file the Bootstrap
\* stage logs to unless that stage was given --log-file
ProvLogsToLogFile == caller = "standalone" \/ args.log_file = "None"

RECURSIVE ProvLogAll(_, _)
ProvLogAll(content, lines) ==
    IF lines = <<>> THEN content
    ELSE ProvLogAll(ProvLogWrite(content, Head(lines)), Tail(lines))

\* log(): a line is appended when the file can be opened; a failure to open
\* it is a warning on the console
ProvLogged(dirState, lines) ==
    /\ IF ProvLogsToLogFile /\ (dirState = "ok" \/ logExists)
       THEN /\ logContent' = ProvLogAll(logContent, lines)
            /\ logExists' = TRUE
       ELSE UNCHANGED <<logContent, logExists>>

\* return <code> from main(), and with it sys.exit(<code>)
ProvReturn(code) ==
    /\ provResult' = ReturnedCode(code)
    /\ pc' = IF caller = "bootstrap" THEN "subprocess_done" ELSE "done"

\* install.py is started on its own, with an install directory
BeginProvisioning ==
    /\ pc = "idle"
    /\ args' = [NoArgs EXCEPT !.install_dir = "D"]
    /\ caller' = "standalone"
    /\ pc' = "prov_start"
    /\ UNCHANGED <<urlVars, fsVars, handlerOpen, download_url, env_example_path,
                   install_script, cmd, exit_code, launcher_found, result, provResult,
                   trace>>

\* lines 213-224: LOG_FILE_PATH, os.makedirs(install_dir), first lines
ProvStart ==
    /\ pc = "prov_start"
    /\ installDir' = IF installDir = "absent" THEN "ok" ELSE installDir
    /\ ProvLogged(installDir', <<"RAUX Installation">>)
    /\ pc' = "prov_check_python"
    /\ UNCHANGED <<urlVars, runtimePresent, cwd_launchers, runs, unpacked, localFile, rauxZip, extracted, installed, args,
                   handlerOpen, download_url, env_example_path, install_script, cmd,
                   exit_code, launcher_found, result, caller, provResult, trace>>

\* the check made on the install directory instead of on python.exe
BundledRuntimeFoundByDir(dirState, present) == dirState # "absent"

\* os.path.exists(<install dir>/python/python.exe)
BundledRuntimeFound(dirState, present) == present

\* lines 227-235: the bundled runtime must be there
ProvCheckPython ==
    /\ pc = "prov_check_python"
    /\ IF ~BundledRuntimeFound(installDir, runtimePresent)
       THEN /\ ProvLogged(installDir, <<"ERROR: Python not found">>)
            /\ ProvReturn(1)
       ELSE /\ pc' = "prov_download"
            /\ UNCHANGED <<logContent, logExists, provResult>>
    /\ UNCHANGED <<urlVars, installDir, runtimePresent, cwd_launchers, runs, unpacked, localFile, rauxZip, extracted,
                   installed, args, handlerOpen, download_url, env_example_path,
                   install_script, cmd, exit_code, launcher_found, result, caller, trace>>

\* lines 237-241 and download_latest_wheel: the release is queried, its
\* first .whl asset is downloaded
ProvDownloadWheel ==
    /\ pc = "prov_download"
    /\ \E outcome \in {"query_fails", "no_wheel", "download_fails", "ok"} :
         /\ trace' = trace \o <<"prov_metadata_query">>
                     \o (IF outcome = "query_fails"
                         THEN <<"prov_metadata_query_failed">> ELSE <<>>)
                     \o (IF outcome \in {"download_fails", "ok"}
                         THEN <<"prov_wheel_download">> ELSE <<>>)
                     \o (IF outcome = "download_fails"
                         THEN <<"prov_wheel_download_failed">> ELSE <<>>)
                     \o (IF outcome = "ok" THEN <<"prov_wheel_saved">> ELSE <<>>)
         /\ IF outcome = "ok"
            THEN /\ ProvLogged(installDir, <<"Wheel downloaded successfully">>)
                 /\ pc' = "prov_install"
                 /\ UNCHANGED provResult
            ELSE /\ ProvLogged(installDir, <<"ERROR: Failed to download wheel">>)
                 /\ ProvReturn(1)
    /\ UNCHANGED <<urlVars, installDir, runtimePresent, cwd_launchers, runs, unpacked, localFile, rauxZip, extracted, installed,
                   args, handlerOpen, download_url, env_example_path, install_script, cmd,
                   exit_code, launcher_found, result, caller>>

\* lines 243-246 and install_wheel: pip install --no-deps <wheel>
ProvInstallWheel ==
    /\ pc = "prov_install"
    /\ \E outcome \in {"exit_0", "exit_nonzero", "exception"} :
         IF outcome = "exit_0"
         THEN /\ trace' = trace \o <<"prov_pip_install", "prov_pip_exit_0">>
              /\ ProvLogged(installDir, <<"Wheel installed successfully">>)
              /\ pc' = "prov_shortcuts"
              /\ UNCHANGED provResult
         ELSE /\ trace' = trace \o <<"prov_pip_install", "prov_pip_install_failed">>
              /\ ProvLogged(installDir, <<"ERROR: Failed to install wheel">>)
              /\ ProvReturn(1)
    /\ UNCHANGED <<urlVars, installDir, runtimePresent, cwd_launchers, runs, unpacked, localFile, rauxZip, extracted,
                   installed, args, handlerOpen, download_url, env_example_path,
                   install_script, cmd, exit_code, launcher_found, result, caller>>

\* the code main() returns once the wheel is installed, with the shortcut's
\* failure counted as a failure of the stage
ShortcutResultStrict(outcome) == IF outcome = "ok" THEN 0 ELSE 1

\* lines 248-252: whatever create_shortcuts met, main() returns 0
ShortcutResult(outcome) == 0

\* lines 248-252 and create_shortcuts: the shortcut is written by PowerShell
ProvCreateShortcuts ==
    /\ pc = "prov_shortcuts"
    /\ \E outcome \in {"ok", "exit_nonzero", "exception"} :
         /\ trace' = trace \o <<"prov_create_shortcut">>
                     \o (IF outcome = "ok" THEN <<>> ELSE <<"prov_shortcut_failed">>)
         /\ ProvLogged(installDir,
                <<IF outcome = "ok" THEN "Created shortcut" ELSE "Error creating shortcuts",
                  "Installation completed successfully">>)
         /\ ProvReturn(ShortcutResult(outcome))
    /\ UNCHANGED <<urlVars, installDir, runtimePresent, cwd_launchers, runs, unpacked, localFile, rauxZip, extracted,
                   installed, args, handlerOpen, download_url, env_example_path,
                   install_script, cmd, exit_code, launcher_found, result, caller>>

\* raux_installer.py line 340: the subprocess can also end without main()
\* returning (the interpreter rejects the script, the process is ended from
\* outside), with a return code of its own
SubprocessEndsOtherwise ==
    /\ pc = "prov_start"
    /\ caller = "bootstrap"
    /\ \E c \in OtherExitCodes : provResult' = [kind |-> "ended", code |-> c]
    /\ pc' = "subprocess_done"
    /\ UNCHANGED <<urlVars, fsVars, args, handlerOpen, download_url, env_example_path,
                   install_script, cmd, exit_code, launcher_found, result, caller, trace>>

---------------------------------------------------------------------------
(* Specifications *)

Provisioning ==
    \/ ProvStart
    \/ ProvCheckPython
    \/ ProvDownloadWheel
    \/ ProvInstallWheel
    \/ ProvCreateShortcuts
    \/ SubprocessEndsOtherwise

\* one run of either stage, with every input of the bounded sets
Next ==
    \/ BeginBootstrap(AllArgs, SampleLocalArchives)
    \/ SetupLogging
    \/ VerifyInstallDir
    \/ CreateTestFile
    \/ CopyLocalRelease
    \/ UseSpecificVersion
    \/ QueryLatestRelease(SampleResponses)
    \/ DownloadArchive(RemoteArchives)
    \/ ExtractArchive
    \/ CopyEnvExample
    \/ FindInstallScript
    \/ ResetLogHandlers
    \/ RunInstaller
    \/ SubprocessReturned
    \/ CopyLaunchers
    \/ CopyLaunchersFromCwd
    \/ Summary
    \/ BeginProvisioning
    \/ Provisioning

Spec == Init /\ [][Next]_vars

\* runs on a local release file, with every placement of the four files in it
LookupArgs ==
    {a \in AllArgs : /\ a.install_dir = "D"
                      /\ a.local_release = "local.zip"
                      /\ a.log_file = "custom"
                      /\ ~a.version.some}

LookupInit ==
    /\ Init
    /\ installDir = "ok"
    /\ runtimePresent = TRUE
    /\ logExists = FALSE

LookupNext ==
    \/ BeginBootstrap(LookupArgs, AllLocalArchives)
    \/ SetupLogging
    \/ VerifyInstallDir
    \/ CreateTestFile
    \/ CopyLocalRelease
    \/ ExtractArchive
    \/ CopyEnvExample
    \/ FindInstallScript
    \/ ResetLogHandlers
    \/ RunInstaller
    \/ SubprocessReturned
    \/ CopyLaunchers
    \/ CopyLaunchersFromCwd
    \/ Summary
    \/ Provisioning

SpecLookup == LookupInit /\ [][LookupNext]_vars

\* a run has ended and the installer is started again in the same working
\* directory, with a log file of its own (--log-file): raux.zip,
\* extracted_files and the install directory are as the earlier run left them
NextRun ==
    /\ pc = "done"
    /\ caller # "standalone"
    /\ runs < MaxRuns
    /\ pc' = "idle"
    /\ args' = NoArgs
    /\ handlerOpen' = FALSE
    /\ download_url' = <<>>
    /\ env_example_path' = NoPath
    /\ install_script' = NoPath
    /\ cmd' = <<>>
    /\ exit_code' = 0
    /\ launcher_found' = [ps1 |-> FALSE, cmd |-> FALSE]
    /\ result' = NoResult
    /\ caller' = "none"
    /\ provResult' = NoResult
    /\ trace' = <<>>
    /\ urlResponse' = NoResponse
    /\ logExists' = FALSE
    /\ logContent' = <<>>
    /\ localFile' = NoZip
    /\ cwd_launchers' = {}
    /\ UNCHANGED <<urlVersion, urlResult, urlPc, installDir, runtimePresent, rauxZip,
                   extracted, installed, runs, unpacked>>

\* runs that take the latest release or a local file, with a log file of
\* their own
RunsArgs ==
    {a \in AllArgs : /\ a.install_dir = "D"
                      /\ a.log_file = "custom"
                      /\ ~a.debug
                      /\ ~a.version.some
                      /\ a.local_release \in {"None", "local.zip"}}

\* the local release files and the metadata answers those runs are tried with
RunsLocalArchives ==
    {Archive("local", ArchiveFiles({2}, 1, 3, 1)),
     Archive("local", ArchiveFiles({3}, 0, 2, 0))}

RunsResponses == {r \in Responses : r.status = 200 /\ r.assets = <<3, 1>> /\ r.zipball}

RunsInit ==
    /\ Init
    /\ installDir = "ok"
    /\ runtimePresent = TRUE
    /\ logExists = FALSE

RunsNext ==
    \/ BeginBootstrap(RunsArgs, RunsLocalArchives)
    \/ SetupLogging
    \/ VerifyInstallDir
    \/ CreateTestFile
    \/ CopyLocalRelease
    \/ QueryLatestRelease(RunsResponses)
    \/ DownloadArchive(RemoteArchives)
    \/ ExtractArchive
    \/ CopyEnvExample
    \/ FindInstallScript
    \/ ResetLogHandlers
    \/ RunInstaller
    \/ SubprocessReturned
    \/ CopyLaunchers
    \/ CopyLaunchersFromCwd
    \/ Summary
    \/ Provisioning
    \/ NextRun

\* up to MaxRuns runs of the Bootstrap stage, one after another, in one
\* working directory
SpecRuns == RunsInit /\ [][RunsNext]_vars

\* the URL functions on every version string and every metadata answer
UrlSpecInit ==
    /\ UrlInit
    /\ RunIdle
    /\ installDir = "ok"
    /\ runtimePresent = TRUE
    /\ logExists = FALSE
    /\ logContent = <<>>
    /\ localFile = NoZip
    /\ rauxZip = NoZip
    /\ extracted = {}
    /\ installed = [t \in Targets |-> NoFile]
    /\ cwd_launchers = {}
    /\ runs = 0
    /\ unpacked = {}

SpecUrl == UrlSpecInit /\ [][UrlNext]_vars

---------------------------------------------------------------------------
(* Properties *)

IsPrefix(s, t) == Len(s) <= Len(t) /\ SubSeq(t, 1, Len(s)) = s

InTrace(e) == \E i \in 1..Len(trace) : trace[i] = e

InLog(line) == \E i \in 1..Len(logContent) : logContent[i] = line

\* a run of the Bootstrap stage is under way or over
BootstrapRun == pc # "idle" /\ caller # "standalone"

\* the network requests and the extraction of the Bootstrap stage itself
BootstrapNetworkEvents == {"metadata_query", "pip_install_requests", "download"}

\* C1: a Bootstrap run whose install directory is missing, does not exist or
\* rejects the test write ends with an error, and at no point of the run has
\* a metadata query, a download or an extraction been attempted.
C1_DirFailureBeforeAnyWork ==
    (BootstrapRun /\ (args.install_dir = "" \/ installDir \in {"absent", "readonly"}))
    => /\ \A e \in BootstrapNetworkEvents \cup {"extract", "copy_local"} : ~InTrace(e)
       /\ rauxZip = NoZip
       /\ extracted = {}
       /\ pc \in {"setup_logging", "verify", "done"}
       /\ pc = "done" => result = RaisedError

\* a run that asked for the latest release (so a metadata query was due) has
\* been stopped by the test write, after logging was set up
C1_Witness ==
    /\ pc = "done"
    /\ caller = "none"
    /\ args.install_dir = "D"
    /\ installDir = "readonly"
    /\ ~UsesLocalRelease(args)
    /\ InLog("ERROR: Cannot write to installation directory")
    /\ result = RaisedError
    /\ trace = <<"handler_open">>

\* C2: whatever exit code the Provisioning subprocess ends with, install_raux
\* returns that code as its own result.
\* (Stated for the runs in which no later step, a launcher copy, failed.)
C2_ReturnsSubprocessExitCode ==
    (/\ pc = "done"
     /\ caller = "bootstrap"
     /\ provResult.kind # "none"
     /\ ~InLog("ERROR: Failed to copy launcher")
     /\ ~InLog("ERROR: Failed to copy launcher from current directory"))
    => result = ReturnedCode(SubprocessReturnCode(provResult))

\* the lines install_raux logs when a step has failed
BootstrapFailureLines ==
    {"ERROR: Installation directory parameter is missing",
     "ERROR: Installation directory does not exist",
     "ERROR: Cannot write to installation directory",
     "ERROR: Cannot create test file in temporary directory",
     "ERROR: Local release file does not exist",
     "ERROR: Failed to copy local release file",
     "Error fetching release info",
     "ERROR: Failed to install requests package",
     "ERROR: Failed to download RAUX zip file",
     "ERROR: Failed to extract RAUX zip file",
     "ERROR: Could not find install.py in extracted files",
     "ERROR: Failed to run installation script",
     "ERROR: Failed to copy launcher",
     "ERROR: Failed to copy launcher from current directory",
     "Installation failed with error code"}

\* C3: a failure of a Bootstrap run ends the process with a non-zero exit
\* code, and the process exits with 0 only if the Provisioning subprocess ran
\* and returned 0.
C3_FailuresExitNonZero ==
    (pc = "done" /\ caller # "standalone")
    => /\ result.kind # "none"
       /\ (\E l \in BootstrapFailureLines : InLog(l)) => ProcessExitCode(result) # 0
       /\ exit_code # 0 => ProcessExitCode(result) # 0
       /\ InTrace("subprocess_start_failed") => ProcessExitCode(result) # 0
       /\ ProcessExitCode(result) = 0
            => /\ InTrace("subprocess_start")
               /\ provResult.kind # "none"
               /\ SubprocessReturnCode(provResult) = 0

\* the subprocess ran, returned 1, the launchers were copied, and the run
\* ended with a non-zero exit code
C3_Witness ==
    /\ pc = "done"
    /\ caller = "bootstrap"
    /\ provResult = ReturnedCode(1)
    /\ exit_code = 1
    /\ InTrace("copy_launch_raux.cmd")
    /\ InLog("Installation failed with error code")
    /\ ProcessExitCode(result) = 1

\* the least index of `assets` whose asset satisfies P, 0 when there is none
LeastIndex(assets, P(_)) ==
    IF \E i \in 1..Len(assets) : P(assets[i])
    THEN CHOOSE i \in 1..Len(assets) :
           P(assets[i]) /\ \A j \in 1..(i - 1) : ~P(assets[j])
    ELSE 0

UrlResolvedFromResponse ==
    /\ urlPc = "resolved"
    /\ ~urlVersion.some
    /\ urlResponse.kind = "response"

\* C4 as claimed: the URL resolved from a metadata answer is the first
\* Windows-tagged .zip asset's, otherwise the first .zip asset's, otherwise
\* the fixed fallback URL, and never anything else.
C4_AsClaimed ==
    UrlResolvedFromResponse
    => LET assets == urlResponse.assets
           w == LeastIndex(assets, IsWindowsZip)
           z == LeastIndex(assets, IsZip)
       IN  urlResult = Returned(IF w # 0 THEN AssetUrl(assets[w])
                                ELSE IF z # 0 THEN AssetUrl(assets[z])
                                ELSE DefaultUrl)

\* C4 as amended: for an answer with status 200 the URL resolved is the first
\* Windows-tagged .zip asset's, otherwise the first .zip asset's, otherwise
\* the zipball_url of the answer when it has one, otherwise the fixed
\* fallback URL; for an answer with another status it is the fixed fallback
\* URL.
C4_ResolutionOrder ==
    UrlResolvedFromResponse
    => LET assets == urlResponse.assets
           w == LeastIndex(assets, IsWindowsZip)
           z == LeastIndex(assets, IsZip)
       IN  urlResult = Returned(IF urlResponse.status # 200 THEN DefaultUrl
                                ELSE IF w # 0 THEN AssetUrl(assets[w])
                                ELSE IF z # 0 THEN AssetUrl(assets[z])
                                ELSE IF urlResponse.zipball THEN ZipballUrl
                                ELSE DefaultUrl)

\* an untagged archive comes first in the list, a tagged one (tagged only
\* once lower-cased) second: the tagged one's URL is the result
C4_Witness ==
    /\ UrlResolvedFromResponse
    /\ urlResponse.status = 200
    /\ urlResponse.assets = <<3, 2>>
    /\ urlResponse.zipball
    /\ urlResult = Returned(AssetUrl(2))

\* C5: the URL of a version v is the template with v itself as the release
\* tag and, in the file name, v without its first character when that is 'v'
\* and v as it is otherwise.
C5_VersionUrl ==
    (urlPc = "resolved" /\ urlVersion.some)
    => LET v == urlVersion.val
           n == Len(v)
           k == IF n > 0 /\ v[1] = "v" THEN n - 1 ELSE n
           url == urlResult.url
       IN  /\ urlResult.called /\ ~urlResult.raised
           /\ Len(url) = n + k + 3
           /\ url[1] = "https://github.com/aigdat/raux/releases/download/"
           /\ \A i \in 1..n : url[1 + i] = v[i]
           /\ url[n + 2] = "/raux-"
           /\ \A i \in 1..k : url[n + 2 + i] = v[n - k + i]
           /\ url[n + k + 3] = "-setup.zip"

\* v1.2.3+extra gives .../download/v1.2.3+extra/raux-1.2.3+extra-setup.zip
C5_Witness ==
    /\ urlPc = "resolved"
    /\ urlVersion.val = ExampleVersion
    /\ urlResult.url =
         <<"https://github.com/aigdat/raux/releases/download/",
           "v", "1", ".", "2", ".", "3", "+", "e", "x", "t", "r", "a",
           "/raux-",
           "1", ".", "2", ".", "3", "+", "e", "x", "t", "r", "a",
           "-setup.zip">>

\* C6: a Bootstrap run given a local release path makes no network request
\* and builds no URL, with or without a version; what it extracts is the
\* local file, byte for byte; and a path that names no file ends the run
\* with an error, with nothing downloaded or extracted.
C6_LocalReleaseNoNetwork ==
    (BootstrapRun /\ args.local_release # "None")
    => /\ \A e \in BootstrapNetworkEvents : ~InTrace(e)
       /\ download_url = <<>>
       /\ rauxZip.exists => rauxZip = localFile
       /\ InTrace("extract")
            => extracted = {[dir |-> m.dir, name |-> m.name, origin |-> "local"] :
                               m \in localFile.archive.files}
       /\ (~localFile.exists /\ pc = "done")
            => /\ result = RaisedError
               /\ ~InTrace("extract")
               /\ extracted = {}

\* a run given both a version and a local file has run to its end on the
\* files of the local archive
C6_Witness ==
    /\ pc = "done"
    /\ args.local_release = "local.zip"
    /\ args.version.some
    /\ result = ReturnedCode(0)
    /\ localFile.archive.files # {}
    /\ extracted = {[dir |-> m.dir, name |-> m.name, origin |-> "local"] :
                       m \in localFile.archive.files}

ProvWorkEvents == {"prov_metadata_query", "prov_wheel_download", "prov_pip_install"}

C8_LogOnlyAppended ==
    [][(logExists /\ logContent # <<>>)
          => (logExists' /\ IsPrefix(logContent, logContent'))]_vars

\* a run on a log file with earlier content: both set-ups of the handler and
\* the Provisioning stage have written to it, after the earlier content
C8_Witness ==
    /\ pc = "done"
    /\ result = ReturnedCode(0)
    /\ args.log_file = "None"
    /\ Len(logContent) > 3
    /\ logContent[1] = "earlier content"
    /\ logContent[2] = "RAUX INSTALLER CONTINUING"
    /\ InLog("RAUX INSTALLER CONTINUING AFTER HANDLER RESET")
    /\ InLog("RAUX Installation")

\* C9: main() of install.py returns 0 exactly when the bundled runtime is
\* there, the wheel was downloaded and pip exited with 0, and 1 otherwise;
\* what happened to the shortcut has no part in it.
C9_ProvisioningResult ==
    /\ provResult.kind = "returned"
         => /\ provResult.code \in {0, 1}
            /\ provResult.code = 0
                 <=> /\ runtimePresent
                     /\ InTrace("prov_wheel_saved")
                     /\ InTrace("prov_pip_exit_0")
    /\ (pc = "done" /\ caller = "standalone") => provResult.kind = "returned"

\* the shortcut could not be created and main() returned 0
C9_Witness ==
    /\ pc = "done"
    /\ caller = "standalone"
    /\ InTrace("prov_shortcut_failed")
    /\ provResult = ReturnedCode(0)

HasAllFour(files) == \A n \in FileNames : \E m \in files : m.name = n

LocalEntry(d, name) == [dir |-> d, name |-> name, origin |-> "local"]

\* C10: from a local archive that holds install.py, .env.example,
\* launch_raux.ps1 and launch_raux.cmd, wherever they lie in it, the run
\* finds .env.example and install.py; .env.example is copied (to
\* python/Lib/.env under the install directory) unless the copy fails, which
\* is a warning; install.py is run with the bundled runtime, --install-dir
\* <install dir>, --yes and --force, and --debug exactly when debug is set;
\* and once the launcher step is over both launchers of the archive lie in
\* the install directory, unless their copy failed, which is an error.
C10_LocalArchiveEndToEnd ==
    (/\ BootstrapRun
     /\ localFile.exists
     /\ HasAllFour(localFile.archive.files)
     /\ InTrace("extract"))
    => LET files == localFile.archive.files
           envDone == pc # "env_example"
           findDone == envDone /\ pc # "find_script"
           launchersDone == /\ InTrace("subprocess_start")
                            /\ pc \in {"copy_launchers_cwd", "summary", "done"}
       IN  /\ envDone
                => /\ env_example_path.found
                   /\ [dir |-> env_example_path.dir, name |-> ".env.example"] \in files
                   /\ \/ installed[".env"] = LocalEntry(env_example_path.dir, ".env.example")
                      \/ InLog("WARNING: Failed to copy .env.example")
           /\ findDone
                => /\ install_script.found
                   /\ [dir |-> install_script.dir, name |-> "install.py"] \in files
           /\ cmd # <<>>
                => /\ Len(cmd) = IF args.debug THEN 7 ELSE 6
                   /\ cmd[1] = <<args.install_dir, "python", "python.exe">>
                   /\ cmd[2] = install_script
                   /\ cmd[3] = "--install-dir"
                   /\ cmd[4] = args.install_dir
                   /\ cmd[5] = "--yes"
                   /\ cmd[6] = "--force"
                   /\ args.debug => cmd[7] = "--debug"
           /\ (pc \notin {"env_example", "find_script", "reset_log", "run_installer"})
                => cmd # <<>>
           /\ launchersDone
                => \/ InLog("ERROR: Failed to copy launcher")
                   \/ \A n \in {"launch_raux.ps1", "launch_raux.cmd"} :
                        /\ installed[n].origin = "local"
                        /\ installed[n].name = n
                        /\ [dir |-> installed[n].dir, name |-> n] \in files

\* the four files lie in three different directories, .env.example and the
\* launchers outside the first directory of the walk; the run, with debug
\* set, has ended with 0 and all three copies in place
C10_Witness ==
    /\ pc = "done"
    /\ result = ReturnedCode(0)
    /\ args.debug
    /\ localFile.archive.files = ArchiveFiles({2}, 3, 2, 3)
    /\ installed[".env"] = LocalEntry(3, ".env.example")
    /\ installed["launch_raux.ps1"] = LocalEntry(2, "launch_raux.ps1")
    /\ installed["launch_raux.cmd"] = LocalEntry(3, "launch_raux.cmd")
    /\ cmd[2] = [found |-> TRUE, dir |-> 2]
    /\ cmd[7] = "--debug"


InTree(name) == \E f \in extracted : f.name = name

\* the launcher step of a Bootstrap run is over and no copy of it failed
LauncherStepPassed ==
    /\ caller = "bootstrap"
    /\ pc \in {"summary", "done"}
    /\ ~InLog("ERROR: Failed to copy launcher")
    /\ ~InLog("ERROR: Failed to copy launcher from current directory")

\* C11: a launcher that lies neither in the extracted tree nor in the working
\* directory costs the run a warning only: no copy of it is attempted and the
\* run ends as the subprocess's exit code alone decides (0 is returned, any
\* other code is raised), as it does with the launcher there.  A launcher
\* that is not in the tree but in the working directory is copied from there
\* into the install directory, unless a copy from there fails, which is an
\* error.
C11_LauncherAbsenceIsWarning ==
    \A n \in {"launch_raux.ps1", "launch_raux.cmd"} :
        /\ (LauncherStepPassed /\ ~InTree(n) /\ n \notin cwd_launchers)
             => /\ InLog("WARNING: Could not find " \o n \o " in the extracted files")
                /\ ~InTrace("copy_" \o n)
                /\ pc = "done"
                     => result = IF exit_code = 0 THEN ReturnedCode(0) ELSE RaisedError
        /\ (LauncherStepPassed /\ ~InTree(n) /\ n \in cwd_launchers)
             => /\ installed[n] = CwdFile(n)
                /\ InTrace("copy_" \o n)
                /\ pc = "done"
                     => result = IF exit_code = 0 THEN ReturnedCode(0) ELSE RaisedError
        /\ (/\ caller = "bootstrap"
            /\ pc = "done"
            /\ InTrace("subprocess_start")
            /\ ~InTree(n)
            /\ n \in cwd_launchers)
             => \/ installed[n] = CwdFile(n)
                \/ InLog("ERROR: Failed to copy launcher from current directory")

\* the archive held neither launcher; launch_raux.cmd lay in the working
\* directory and was copied from there, launch_raux.ps1 lay nowhere, and the
\* run returned 0
C11_Witness ==
    /\ pc = "done"
    /\ caller = "bootstrap"
    /\ ~InTree("launch_raux.ps1")
    /\ ~InTree("launch_raux.cmd")
    /\ cwd_launchers = {"launch_raux.cmd"}
    /\ installed["launch_raux.cmd"] = CwdFile("launch_raux.cmd")
    /\ installed["launch_raux.ps1"] = NoFile
    /\ InLog("WARNING: Could not find launch_raux.ps1 in the extracted files")
    /\ result = ReturnedCode(0)


\* how often the operation e was attempted in this run
Count(e) == Cardinality({i \in 1..Len(trace) : trace[i] = e})

\* the network calls, the extraction and the subprocesses of the two stages
BootstrapAttempts == {"metadata_query", "pip_install_requests", "download", "extract"}

ProvAttempts ==
    {"prov_metadata_query", "prov_wheel_download", "prov_pip_install", "prov_create_shortcut"}

\* the installation steps of the Provisioning stage, and of a whole run
ProvSteps == ProvAttempts \cup {"prov_wheel_saved", "prov_pip_exit_0"}

LauncherCopyEvents == {"copy_launch_raux.ps1", "copy_launch_raux.cmd"}

AllSteps ==
    BootstrapAttempts \cup ProvSteps \cup LauncherCopyEvents
    \cup {"copy_local", "copy_env", "subprocess_start", "subprocess_start_failed"}

BootstrapFailures ==
    {"metadata_query_failed", "pip_install_requests_failed", "download_failed",
     "extract_failed", "subprocess_start_failed"}

ProvFailures ==
    {"prov_metadata_query_failed", "prov_wheel_download_failed", "prov_pip_install_failed"}

\* no operation of `steps` comes after the event `failure`
NothingAfter(failure, steps) ==
    \A i, j \in 1..Len(trace) : (i < j /\ trace[i] = failure) => trace[j] \notin steps

AttemptedAtMostOnce ==
    /\ \A e \in BootstrapAttempts \cup ProvAttempts : Count(e) <= 1
    /\ Count("subprocess_start") + Count("subprocess_start_failed") <= 1

\* a failed step of the Bootstrap stage itself, or of the Provisioning stage,
\* ends that stage at once and with a failure
StageAbortsOnOwnFailure ==
    /\ \A f \in BootstrapFailures :
         /\ NothingAfter(f, AllSteps)
         /\ InTrace(f) => (pc = "done" /\ result = RaisedError)
    /\ \A f \in ProvFailures :
         /\ NothingAfter(f, ProvSteps)
         /\ InTrace(f) => provResult = ReturnedCode(1)

MetadataQueried == BootstrapRun /\ InTrace("metadata_query")

QueryRaised == MetadataQueried /\ urlResponse.kind = "exception"

QueryAnsweredNot200 ==
    MetadataQueried /\ urlResponse.kind = "response" /\ urlResponse.status # 200

NoArchiveWork ==
    /\ \A e \in {"pip_install_requests", "download", "extract"} : ~InTrace(e)
    /\ rauxZip = NoZip
    /\ extracted = {}

\* C13 as claimed: when the latest-release query raises or is answered with
\* a status other than success, the Bootstrap run ends with an error and
\* downloads and extracts nothing.
C13_AsClaimed ==
    (QueryRaised \/ QueryAnsweredNot200)
    => /\ pc = "done"
       /\ result = RaisedError
       /\ NoArchiveWork

\* C13 as amended: when the latest-release query raises, the Bootstrap run
\* ends with an error and downloads and extracts nothing; when it is
\* answered with a status other than 200, the run does not end there: it
\* takes the fixed fallback URL and goes on to the download step.
C13_QueryFailure ==
    /\ QueryRaised
         => /\ pc = "done"
            /\ result = RaisedError
            /\ NoArchiveWork
    /\ QueryAnsweredNot200
         => /\ ~InTrace("metadata_query_failed")
            /\ ~InLog("Error fetching release info")
            /\ download_url = DefaultUrl
            /\ pc # "download" => InTrace("pip_install_requests")

\* the endpoint answered 404; the archive was downloaded from the fallback
\* URL and extracted, and the run returned 0
C13_Witness ==
    /\ QueryAnsweredNot200
    /\ urlResponse.status = 404
    /\ download_url = DefaultUrl
    /\ InTrace("download")
    /\ InTrace("extract")
    /\ extracted # {}
    /\ pc = "done"
    /\ result = ReturnedCode(0)


\* the Provisioning subprocess of a Bootstrap run is running
SubprocessRunning ==
    /\ caller = "bootstrap"
    /\ pc \in {"prov_start", "prov_check_python", "prov_download", "prov_install",
               "prov_shortcuts"}

ScriptDirs == {f.dir : f \in {g \in extracted : g.name = "install.py"}}

\* the archive was extracted and the search for install.py is over
ScriptSearchDone ==
    /\ BootstrapRun
    /\ InTrace("extract")
    /\ ~InTrace("extract_failed")
    /\ pc \notin {"env_example", "find_script"}

\* C15: when an install.py lies in a directory whose path contains
\* ux_installer, the script the Bootstrap stage picks and runs is one of
\* those, wherever the walk meets it; when none does, it is the first
\* install.py of the walk; when the tree holds no install.py, the run ends
\* with an error and starts no subprocess.
C15_UxInstallerPreferred ==
    ScriptSearchDone
    => LET ux == {d \in ScriptDirs : InUxInstaller(d)}
       IN  /\ ux # {}
                => /\ install_script.found
                   /\ install_script.dir \in ux
           /\ (ux = {} /\ ScriptDirs # {})
                => /\ install_script.found
                   /\ install_script.dir \in ScriptDirs
                   /\ \A d \in ScriptDirs : install_script.dir <= d
           /\ ScriptDirs = {}
                => /\ pc = "done"
                   /\ result = RaisedError
                   /\ InLog("ERROR: Could not find install.py in extracted files")
                   /\ ~InTrace("subprocess_start")
                   /\ ~InTrace("subprocess_start_failed")
           /\ cmd # <<>> => cmd[2] = install_script

\* install.py lies in all three directories; the walk meets the one outside
\* ux_installer first, and the one under ux_installer was run
C15_Witness ==
    /\ ScriptSearchDone
    /\ ScriptDirs = {1, 2, 3}
    /\ ~InUxInstaller(1)
    /\ pc = "done"
    /\ InTrace("subprocess_start")
    /\ install_script = [found |-> TRUE, dir |-> 2]
    /\ cmd[2] = [found |-> TRUE, dir |-> 2]
    /\ result = ReturnedCode(0)


\* C16: in a Bootstrap run the desktop shortcut, whose target is
\* <install dir>/launch_raux.cmd, is created before any copy of
\* launch_raux.cmd into the install directory: no such copy has been made by
\* the run while the Provisioning subprocess runs or when it has just ended,
\* and every such copy comes after the start of the subprocess and after the
\* creation of the shortcut.
C16_ShortcutBeforeLauncherCopy ==
    caller # "standalone"
    => /\ (SubprocessRunning \/ pc = "subprocess_done")
            => ~InTrace("copy_launch_raux.cmd")
       /\ \A j \in 1..Len(trace) :
            trace[j] = "copy_launch_raux.cmd"
              => /\ \E i \in 1..(j - 1) : trace[i] = "subprocess_start"
                 /\ \A i \in 1..Len(trace) : trace[i] = "prov_create_shortcut" => i < j

\* the shortcut was created, and after it launch_raux.cmd was copied into an
\* install directory that did not hold it before
C16_Witness ==
    /\ caller = "bootstrap"
    /\ pc = "done"
    /\ result = ReturnedCode(0)
    /\ installed["launch_raux.cmd"] # NoFile
    /\ \E i, j \in 1..Len(trace) :
         /\ i < j
         /\ trace[i] = "prov_create_shortcut"
         /\ trace[j] = "copy_launch_raux.cmd"


\* the paths of the files of a tree
Paths(tree) == {[dir |-> f.dir, name |-> f.name] : f \in tree}

\* no step removes raux.zip or a file of extracted_files
NothingRemoved ==
    /\ rauxZip.exists => rauxZip'.exists
    /\ Paths(extracted) \subseteq Paths(extracted')

\* extracted_files holds exactly the files of the archives unpacked so far,
\* each as the archive that wrote it last left it
UnionOfUnpacked ==
    /\ Paths(extracted) = UNION {a.files : a \in unpacked}
    /\ \A f \in extracted :
         \E a \in unpacked :
           a.origin = f.origin /\ [dir |-> f.dir, name |-> f.name] \in a.files

\* C17: no step of any run removes raux.zip or a file of the extraction
\* directory, and over the runs made in one working directory the extraction
\* directory holds the union of the files of all archives extracted so far.
C17_NothingCleanedUp == [][NothingRemoved]_vars /\ []UnionOfUnpacked

\* a later run, whose own archive (downloaded, readable) holds no install.py,
\* no .env.example and no launch_raux.ps1, found all three among the files
\* an earlier run had extracted from a local archive, ran that install.py
\* and returned 0
C17_Witness ==
    /\ runs > 1
    /\ pc = "done"
    /\ result = ReturnedCode(0)
    /\ rauxZip.archive.origin = "remote"
    /\ rauxZip.archive.readable
    /\ InTrace("extract")
    /\ \A m \in rauxZip.archive.files : m.name = "launch_raux.cmd"
    /\ install_script.found
    /\ FileAt(extracted, install_script.dir, "install.py").origin = "local"
    /\ InTrace("subprocess_start")
    /\ installed[".env"].origin = "local"
    /\ installed["launch_raux.ps1"].origin = "local"
    /\ Cardinality(unpacked) > 1

===========================================================================
